---- MODULE Spec2Model ----
(***************************************************************************)
(* Model of client/service/src/client/block_rules.rs: the BlockRules       *)
(* registry (bad blocks, unfinalized blocks, fork blocks) and its four     *)
(* operations new, mark_unfinalized, lookup and lookup_hash.               *)
(***************************************************************************)
EXTENDS Naturals, Sequences, FiniteSets

(* Bounds of the model. *)
NumHashes == 2
NumHeights == 2
MaxForkLen == 2

(* B::Hash and NumberFor<B>. *)
Hashes == 1..NumHashes
Heights == 1..NumHeights

VARIABLES
    bad,           \* BlockRules.bad
    unfinalized,   \* BlockRules.unfinalized
    forks,         \* BlockRules.forks
    call,          \* the last operation called, with its arguments
    repeated,      \* the last call had the same operation and arguments as the one before
    result         \* what the last operation returned

vars == <<bad, unfinalized, forks, call, repeated, result>>

(* Option<T>. *)
None(empty) == [some |-> FALSE, val |-> empty]
Some(v) == [some |-> TRUE, val |-> v]

(* LookupResult<B>. *)
NotSpecial == <<"NotSpecial">>
KnownBad == <<"KnownBad">>
KnownUnfinalized == <<"KnownUnfinalized">>
Expected(hash) == <<"Expected", hash>>
(* mark_unfinalized returns nothing. *)
Unit == <<"()">>

LookupResult == {NotSpecial, KnownBad, KnownUnfinalized} \cup {Expected(h) : h \in Hashes}

(* LookupResult::is_unfinalized. *)
is_unfinalized(self) == IF self = KnownUnfinalized THEN TRUE ELSE FALSE

(* Option::unwrap_or. *)
unwrap_or(opt, default) == IF opt.some THEN opt.val ELSE default

(* HashMap::new. *)
EmptyMap == [k \in {} |-> k]

(* A HashMap::insert that keeps the value of a key already present. *)
insert_keep_existing(map, k, v) ==
    [x \in (DOMAIN map) \cup {k} |-> IF x \in DOMAIN map THEN map[x] ELSE v]

(* HashMap::insert: the value of a key already present is replaced. *)
insert(map, k, v) ==
    [x \in (DOMAIN map) \cup {k} |-> IF x = k THEN v ELSE map[x]]

(* into_iter().collect() into a HashMap: the pairs are inserted in iteration order. *)
RECURSIVE extend(_, _)
extend(map, pairs) ==
    IF pairs = <<>> THEN map
    ELSE extend(insert(map, Head(pairs)[1], Head(pairs)[2]), Tail(pairs))

collect(pairs) == extend(EmptyMap, pairs)

(* BlockRules::new, the registry it returns. *)
new(fork_blocks, bad_blocks) ==
    [bad |-> unwrap_or(bad_blocks, {}),
     forks |-> collect(unwrap_or(fork_blocks, <<>>)),
     unfinalized |-> {}]

(* The arguments construction is tried on. *)
PairSeqs == UNION {[1..len -> Heights \X Hashes] : len \in 0..MaxForkLen}
ForkBlocks == {None(<<>>)} \cup {Some(s) : s \in PairSeqs}
BadBlocks == {None({})} \cup {Some(s) : s \in SUBSET Hashes}

(* The state after construction. *)
Init ==
    \E fork_blocks \in ForkBlocks, bad_blocks \in BadBlocks :
        /\ bad = new(fork_blocks, bad_blocks).bad
        /\ unfinalized = new(fork_blocks, bad_blocks).unfinalized
        /\ forks = new(fork_blocks, bad_blocks).forks
        /\ call = <<"new", fork_blocks, bad_blocks>>
        /\ repeated = FALSE
        /\ result = Unit

(* A mark_unfinalized that forgets the hashes marked before. *)
mark_unfinalized_replace(hash) ==
    /\ unfinalized' = {hash}
    /\ call' = <<"mark_unfinalized", hash>>
    /\ repeated' = (call = call')
    /\ result' = Unit
    /\ UNCHANGED <<bad, forks>>

(* A mark_unfinalized that inserts into the wrong set. *)
mark_unfinalized_into_bad(hash) ==
    /\ bad' = bad \cup {hash}
    /\ call' = <<"mark_unfinalized", hash>>
    /\ repeated' = (call = call')
    /\ result' = Unit
    /\ UNCHANGED <<unfinalized, forks>>

(* A mark_unfinalized that removes a hash already marked. *)
mark_unfinalized_toggle(hash) ==
    /\ unfinalized' = IF hash \in unfinalized THEN unfinalized \ {hash}
                      ELSE unfinalized \cup {hash}
    /\ call' = <<"mark_unfinalized", hash>>
    /\ repeated' = (call = call')
    /\ result' = Unit
    /\ UNCHANGED <<bad, forks>>

(* BlockRules::mark_unfinalized. *)
mark_unfinalized(hash) ==
    /\ unfinalized' = unfinalized \cup {hash}
    /\ call' = <<"mark_unfinalized", hash>>
    /\ repeated' = (call = call')
    /\ result' = Unit
    /\ UNCHANGED <<bad, forks>>

(* A lookup that checks bad before the fork entry. *)
lookup_bad_first(number, hash) ==
    IF hash \in bad THEN KnownBad
    ELSE IF number \in DOMAIN forks /\ forks[number] # hash
    THEN Expected(forks[number])
    ELSE IF hash \in unfinalized THEN KnownUnfinalized
    ELSE NotSpecial

(* A lookup that returns at once for the hash of the fork entry. *)
lookup_fork_match_returns(number, hash) ==
    IF number \in DOMAIN forks
    THEN IF forks[number] # hash THEN Expected(forks[number]) ELSE NotSpecial
    ELSE IF hash \in bad THEN KnownBad
    ELSE IF hash \in unfinalized THEN KnownUnfinalized
    ELSE NotSpecial

(* A lookup that checks unfinalized before bad. *)
lookup_unfinalized_first(number, hash) ==
    IF number \in DOMAIN forks /\ forks[number] # hash
    THEN Expected(forks[number])
    ELSE IF hash \in unfinalized THEN KnownUnfinalized
    ELSE IF hash \in bad THEN KnownBad
    ELSE NotSpecial

(* BlockRules::lookup, the value it returns. *)
lookup(number, hash) ==
    IF number \in DOMAIN forks /\ forks[number] # hash
    THEN Expected(forks[number])
    ELSE IF hash \in bad THEN KnownBad
    ELSE IF hash \in unfinalized THEN KnownUnfinalized
    ELSE NotSpecial

(* A lookup_hash that checks unfinalized before bad. *)
lookup_hash_unfinalized_first(hash) ==
    IF hash \in unfinalized THEN KnownUnfinalized
    ELSE IF hash \in bad THEN KnownBad
    ELSE NotSpecial

(* A lookup_hash with the unfinalized test negated. *)
lookup_hash_negated(hash) ==
    IF hash \in bad THEN KnownBad
    ELSE IF hash \notin unfinalized THEN KnownUnfinalized
    ELSE NotSpecial

(* A lookup_hash without the bad-block check. *)
lookup_hash_skips_bad(hash) ==
    IF hash \in unfinalized THEN KnownUnfinalized
    ELSE NotSpecial

(* BlockRules::lookup_hash, the value it returns. *)
lookup_hash(hash) ==
    IF hash \in bad THEN KnownBad
    ELSE IF hash \in unfinalized THEN KnownUnfinalized
    ELSE NotSpecial

(* A call of lookup: &self, nothing is written. *)
Lookup(number, hash) ==
    /\ call' = <<"lookup", number, hash>>
    /\ repeated' = (call = call')
    /\ result' = lookup(number, hash)
    /\ UNCHANGED <<bad, unfinalized, forks>>

(* A call of lookup_hash: &self, nothing is written. *)
LookupHash(hash) ==
    /\ call' = <<"lookup_hash", hash>>
    /\ repeated' = (call = call')
    /\ result' = lookup_hash(hash)
    /\ UNCHANGED <<bad, unfinalized, forks>>

Next ==
    \/ \E hash \in Hashes : mark_unfinalized(hash)
    \/ \E number \in Heights, hash \in Hashes : Lookup(number, hash)
    \/ \E hash \in Hashes : LookupHash(hash)

Spec == Init /\ [][Next]_vars

TypeOK ==
    /\ bad \subseteq Hashes
    /\ unfinalized \subseteq Hashes
    /\ DOMAIN forks \subseteq Heights
    /\ \A n \in DOMAIN forks : forks[n] \in Hashes
    /\ result \in LookupResult \cup {Unit}
    /\ repeated \in BOOLEAN

(* The fork check lets the candidate through: no entry at the height, or the entry is the candidate. *)
ForkAllows(number, hash) == number \notin DOMAIN forks \/ forks[number] = hash

(* The arguments of the construction, read from the call that made the registry. *)
GivenForks == IF call[2].some THEN call[2].val ELSE <<>>
GivenBad == IF call[3].some THEN call[3].val ELSE {}

(* C1: at a height with a fork entry, every candidate hash other than the   *)
(* entry gets Expected(entry), whether or not it is in bad or unfinalized.  *)
C1_ForkMismatchExpected ==
    \A n \in DOMAIN forks : \A h \in Hashes \ {forks[n]} :
        lookup(n, h) = Expected(forks[n])

(* A lookup of a bad, unfinalized hash at a height whose entry is another hash returned Expected. *)
C1_Witness ==
    /\ call[1] = "lookup"
    /\ call[2] \in DOMAIN forks
    /\ forks[call[2]] # call[3]
    /\ call[3] \in bad
    /\ call[3] \in unfinalized
    /\ result = Expected(forks[call[2]])

(* C2: a hash in bad gets KnownBad at every height whose fork entry is      *)
(* absent or is that hash: matching the entry does not end the screening.   *)
C2_BadScreened ==
    \A h \in bad : \A n \in Heights :
        ForkAllows(n, h) => lookup(n, h) = KnownBad

(* A lookup of a bad hash at the height whose fork entry it is returned KnownBad. *)
C2_Witness ==
    /\ call[1] = "lookup"
    /\ call[2] \in DOMAIN forks
    /\ forks[call[2]] = call[3]
    /\ call[3] \in bad
    /\ result = KnownBad

(* C3: a hash in bad that was also marked unfinalized gets KnownBad from    *)
(* lookup_hash, and from lookup wherever the fork check lets it through.    *)
C3_BadBeatsUnfinalized ==
    \A h \in bad \cap unfinalized :
        /\ lookup_hash(h) = KnownBad
        /\ \A n \in Heights : ForkAllows(n, h) => lookup(n, h) = KnownBad

(* lookup_hash of a hash in bad and in unfinalized returned KnownBad. *)
C3_Witness ==
    /\ call[1] = "lookup_hash"
    /\ call[2] \in bad
    /\ call[2] \in unfinalized
    /\ result = KnownBad

(* C4: for a hash not in bad, a call of mark_unfinalized makes lookup_hash  *)
(* and every lookup the fork check lets through return KnownUnfinalized,    *)
(* and every later step keeps it so.                                        *)
C4_MarkedStaysUnfinalized ==
    [][\A h \in Hashes \ bad :
          (\/ call'[1] = "mark_unfinalized" /\ call'[2] = h
           \/ lookup_hash(h) = KnownUnfinalized)
          => /\ lookup_hash(h)' = KnownUnfinalized
             /\ \A n \in Heights :
                   ForkAllows(n, h)' => lookup(n, h)' = KnownUnfinalized]_vars

(* After two hashes were marked, lookup_hash of one not in bad returned KnownUnfinalized. *)
C4_Witness ==
    /\ call[1] = "lookup_hash"
    /\ call[2] \in unfinalized \ bad
    /\ Cardinality(unfinalized) >= 2
    /\ result = KnownUnfinalized

(* Every lookup and lookup_hash returns NotSpecial. *)
AllNotSpecial ==
    \A h \in Hashes :
        /\ lookup_hash(h) = NotSpecial
        /\ \A n \in Heights : lookup(n, h) = NotSpecial

(* C5: a height without fork entry and a hash in neither bad nor            *)
(* unfinalized get NotSpecial from lookup and lookup_hash; a registry built *)
(* from two absent inputs returns NotSpecial everywhere, and goes on doing  *)
(* so as long as mark_unfinalized is not called.                            *)
C5_NotSpecial ==
    /\ [](\A h \in Hashes \ (bad \cup unfinalized) :
             /\ lookup_hash(h) = NotSpecial
             /\ \A n \in Heights \ DOMAIN forks : lookup(n, h) = NotSpecial)
    /\ []((call[1] = "new" /\ ~call[2].some /\ ~call[3].some) => AllNotSpecial)
    /\ [][(AllNotSpecial /\ call'[1] # "mark_unfinalized") => AllNotSpecial']_vars

(* A lookup at a height without entry, of a hash in neither set, returned NotSpecial. *)
C5_Witness ==
    /\ call[1] = "lookup"
    /\ call[2] \notin DOMAIN forks
    /\ call[3] \notin bad \cup unfinalized
    /\ result = NotSpecial

(* C6: no step changes bad or forks, unfinalized only grows, and a lookup   *)
(* or lookup_hash changes none of the three.                                *)
C6_Frame ==
    [][/\ bad' = bad
       /\ forks' = forks
       /\ unfinalized \subseteq unfinalized'
       /\ call'[1] \in {"lookup", "lookup_hash"} => unfinalized' = unfinalized]_vars

(* mark_unfinalized was called on a registry with bad blocks and fork entries. *)
C6_Witness ==
    /\ call[1] = "mark_unfinalized"
    /\ call[2] \in unfinalized
    /\ bad # {}
    /\ DOMAIN forks # {}

(* C7: a second mark_unfinalized of the same hash right after the first     *)
(* leaves the registry, and so every lookup and lookup_hash, as it was.     *)
C7_MarkIdempotent ==
    [][(call[1] = "mark_unfinalized" /\ call' = call)
          => /\ bad' = bad
             /\ forks' = forks
             /\ unfinalized' = unfinalized
             /\ \A h \in Hashes :
                   /\ lookup_hash(h)' = lookup_hash(h)
                   /\ \A n \in Heights : lookup(n, h)' = lookup(n, h)]_vars

(* mark_unfinalized was called twice in succession with the same hash. *)
C7_Witness ==
    /\ call[1] = "mark_unfinalized"
    /\ repeated
    /\ call[2] \in unfinalized

(* C8: the registry new returns has one fork entry per height of            *)
(* fork_blocks, the hash of the last pair with that height; bad is the      *)
(* input set and unfinalized is empty.                                      *)
C8_ConstructionLastWins ==
    call[1] = "new" =>
        /\ DOMAIN forks = {GivenForks[i][1] : i \in DOMAIN GivenForks}
        /\ \A i \in DOMAIN GivenForks :
              (\A j \in DOMAIN GivenForks : j > i => GivenForks[j][1] # GivenForks[i][1])
              => forks[GivenForks[i][1]] = GivenForks[i][2]
        /\ bad = GivenBad
        /\ unfinalized = {}

(* A registry was built from fork_blocks with one height twice, under different hashes. *)
C8_Witness ==
    /\ call[1] = "new"
    /\ \E i \in DOMAIN GivenForks : \E j \in DOMAIN GivenForks :
          /\ i < j
          /\ GivenForks[i][1] = GivenForks[j][1]
          /\ GivenForks[i][2] # GivenForks[j][2]
          /\ forks[GivenForks[j][1]] = GivenForks[j][2]

(* C9: lookup_hash never returns Expected, and lookup agrees with it        *)
(* wherever the fork check lets the candidate through.                      *)
C9_LookupHashIsLookupWithoutForks ==
    \A h \in Hashes :
        /\ lookup_hash(h)[1] # "Expected"
        /\ \A n \in Heights : ForkAllows(n, h) => lookup(n, h) = lookup_hash(h)

(* lookup_hash of a marked hash that is the fork entry of some height returned KnownUnfinalized. *)
C9_Witness ==
    /\ call[1] = "lookup_hash"
    /\ \E n \in DOMAIN forks : forks[n] = call[2]
    /\ result = KnownUnfinalized
    /\ lookup_hash(call[2]) = result

(* C10: mark_unfinalized(h) changes a verdict only for queries of h whose   *)
(* verdict was NotSpecial, which becomes KnownUnfinalized; over any step a  *)
(* verdict other than NotSpecial stays, and NotSpecial stays or becomes     *)
(* KnownUnfinalized.                                                        *)
C10_VerdictStability ==
    [][\A h2 \in Hashes :
          /\ lookup_hash(h2) # NotSpecial => lookup_hash(h2)' = lookup_hash(h2)
          /\ lookup_hash(h2)' \in {lookup_hash(h2), KnownUnfinalized}
          /\ (call'[1] = "mark_unfinalized" /\ call'[2] = h2 /\ lookup_hash(h2) = NotSpecial)
                => lookup_hash(h2)' = KnownUnfinalized
          /\ ~(call'[1] = "mark_unfinalized" /\ call'[2] = h2)
                => lookup_hash(h2)' = lookup_hash(h2)
          /\ \A n \in Heights :
                /\ lookup(n, h2) # NotSpecial => lookup(n, h2)' = lookup(n, h2)
                /\ lookup(n, h2)' \in {lookup(n, h2), KnownUnfinalized}
                /\ (call'[1] = "mark_unfinalized" /\ call'[2] = h2 /\ lookup(n, h2) = NotSpecial)
                      => lookup(n, h2)' = KnownUnfinalized
                /\ ~(call'[1] = "mark_unfinalized" /\ call'[2] = h2)
                      => lookup(n, h2)' = lookup(n, h2)]_vars

(* mark_unfinalized made a hash KnownUnfinalized where the fork check lets it through, *)
(* next to a query that stays Expected and one that stays KnownBad.                    *)
C10_Witness ==
    /\ call[1] = "mark_unfinalized"
    /\ lookup_hash(call[2]) = KnownUnfinalized
    /\ \E n \in Heights : lookup(n, call[2]) = KnownUnfinalized
    /\ \E n \in Heights : lookup(n, call[2])[1] = "Expected"
    /\ \E h \in Hashes : lookup_hash(h) = KnownBad
====
